---- MODULE Spec2Model ----
(***************************************************************************)
(* Splay-tree sequence container of src/splay_tree.cc: a node arena        *)
(* `tree`, the globals `root` and `tot_nodes`, the helpers push_up,        *)
(* apply_lazy_value, push_down, rotate, splay, new_node, build_recursive,  *)
(* find_kth, get_interval_subtree_root and the five public operations.     *)
(* Every C++ function is an operator from a program state                  *)
(* g = [tree, root, tot_nodes, oob] to the program state it leaves.        *)
(***************************************************************************)
EXTENDS Integers, Sequences, FiniteSets, TLC

\* Size of the arena `Node tree[MAXN]` (scaled down): handles 0..MAXN-1.
MAXN == 6

\* Number of public calls in a run, and of builds among them.
MaxOps == 5
MaxBuilds == 2

\* Longest list handed to build_from_sequence: it fills the arena.
MaxBuildLen == MAXN - 3

\* The lists handed to build (prefixes of the {10, 20, 30, ...} of run_tests),
\* the values handed to insert and the deltas handed to update_range.
BuildList(n) == [i \in 1..n |-> 10 * i]
Vals == {5}
Deltas == {1, -10}

Handles == 0..(MAXN - 1)

VARIABLES
    tree,       \* Node tree[MAXN]
    root,       \* int root
    tot_nodes,  \* int tot_nodes
    oob,        \* TRUE once a store landed outside `tree` (tree[MAXN] or beyond)
    model,      \* the plain-array reference sequence of run_tests
    ret,        \* value returned by the last query_sum_range call
    last,       \* the last public call: its name, the (l, r, d) of a query or
                \* update, the list length of a build
    detached,   \* handles unlinked by delete_at_position since the last build
    nops,       \* number of public calls made so far
    nbuilds     \* number of build calls made so far

vars == <<tree, root, tot_nodes, oob, model, ret, last, detached, nops, nbuilds>>

\* struct Node after Node(): every field 0.
Node0 == [pa |-> 0, ch |-> [i \in 0..1 |-> 0], key |-> 0, sum |-> 0, lazy |-> 0, sz |-> 0]

\* The program state as one value, before and after a step.
G == [tree |-> tree, root |-> root, tot_nodes |-> tot_nodes, oob |-> oob]
GNext == [tree |-> tree', root |-> root', tot_nodes |-> tot_nodes', oob |-> oob']

\* The handles build_from_sequence gives the two dummies: its first two new_node calls.
HeadDummy == 1
TailDummy == 2

-----------------------------------------------------------------------------
(* Core splay tree operations *)

\* Sequencing: Body at the value of e, which is computed once, as the result
\* of a statement is. Every state handed to an operator below is such a value.
With(e, Body(_)) == CHOOSE r \in {Body(v) : v \in {e}} : TRUE

push_up(g, x) ==
    IF x = 0 THEN g
    ELSE LET t == g.tree IN
         [g EXCEPT !.tree[x].sz = t[t[x].ch[0]].sz + t[t[x].ch[1]].sz + 1,
                   !.tree[x].sum = t[t[x].ch[0]].sum + t[t[x].ch[1]].sum + t[x].key]

\* Faulty apply_lazy_value: the subtree sum is left as it was.
apply_lazy_value_StaleSum(g, x, val) ==
    IF x = 0 THEN g
    ELSE [g EXCEPT !.tree[x].key = @ + val,
                   !.tree[x].lazy = @ + val]

apply_lazy_value(g, x, val) ==
    IF x = 0 THEN g
    ELSE [g EXCEPT !.tree[x].key = @ + val,
                   !.tree[x].sum = @ + val * g.tree[x].sz,
                   !.tree[x].lazy = @ + val]

\* Faulty push_down: it returns at once, the tag stays where it is.
push_down_Never(g, x) == g

\* Faulty push_down: the tag is handed to the children and not cleared.
push_down_NoClear(g, x) ==
    IF x = 0 \/ g.tree[x].lazy = 0 THEN g
    ELSE LET lz == g.tree[x].lazy IN
         With(IF g.tree[x].ch[0] # 0
              THEN apply_lazy_value(g, g.tree[x].ch[0], lz) ELSE g, LAMBDA g1 :
         IF g1.tree[x].ch[1] # 0
         THEN apply_lazy_value(g1, g1.tree[x].ch[1], lz) ELSE g1)

\* Faulty push_down: the tag reaches the left child only.
push_down_LeftOnly(g, x) ==
    IF x = 0 \/ g.tree[x].lazy = 0 THEN g
    ELSE LET lz == g.tree[x].lazy IN
         With(IF g.tree[x].ch[0] # 0
              THEN apply_lazy_value(g, g.tree[x].ch[0], lz) ELSE g, LAMBDA g1 :
         [g1 EXCEPT !.tree[x].lazy = 0])

push_down(g, x) ==
    IF x = 0 \/ g.tree[x].lazy = 0 THEN g
    ELSE LET lz == g.tree[x].lazy IN
         With(IF g.tree[x].ch[0] # 0
              THEN apply_lazy_value(g, g.tree[x].ch[0], lz) ELSE g, LAMBDA g1 :
         With(IF g1.tree[x].ch[1] # 0
              THEN apply_lazy_value(g1, g1.tree[x].ch[1], lz) ELSE g1, LAMBDA g2 :
         [g2 EXCEPT !.tree[x].lazy = 0]))

get_child_type(g, x) ==
    IF g.tree[g.tree[x].pa].ch[1] = x THEN 1 ELSE 0

\* Faulty rotate: the parent link of x's inner child is not stored.
rotate_NoInnerParent(g, x) ==
    LET y == g.tree[x].pa
        z == g.tree[y].pa
        x_type == get_child_type(g, x)
        y_type == get_child_type(g, y)
    IN With(IF z # 0 THEN [g EXCEPT !.tree[z].ch[y_type] = x] ELSE g, LAMBDA g1 :
       With([g1 EXCEPT !.tree[x].pa = z], LAMBDA g2 :
       With([g2 EXCEPT !.tree[y].ch[x_type] = g2.tree[x].ch[1 - x_type]], LAMBDA g4 :
       With([g4 EXCEPT !.tree[x].ch[1 - x_type] = y], LAMBDA g5 :
       With([g5 EXCEPT !.tree[y].pa = x], LAMBDA g6 :
       With(push_up(g6, y), LAMBDA g7 :
       push_up(g7, x)))))))

\* Faulty rotate: the parent link of x is not stored.
rotate_KeepParent(g, x) ==
    LET y == g.tree[x].pa
        z == g.tree[y].pa
        x_type == get_child_type(g, x)
        y_type == get_child_type(g, y)
    IN With(IF z # 0 THEN [g EXCEPT !.tree[z].ch[y_type] = x] ELSE g, LAMBDA g1 :
       With([g1 EXCEPT !.tree[y].ch[x_type] = g1.tree[x].ch[1 - x_type]], LAMBDA g3 :
       With(IF g3.tree[x].ch[1 - x_type] # 0
            THEN [g3 EXCEPT !.tree[g3.tree[x].ch[1 - x_type]].pa = y]
            ELSE g3, LAMBDA g4 :
       With([g4 EXCEPT !.tree[x].ch[1 - x_type] = y], LAMBDA g5 :
       With([g5 EXCEPT !.tree[y].pa = x], LAMBDA g6 :
       With(push_up(g6, y), LAMBDA g7 :
       push_up(g7, x)))))))

\* Faulty rotate: the grandparent's child link is stored without the test
\* `if (z)`.
rotate_NoGrandparentTest(g, x) ==
    LET y == g.tree[x].pa
        z == g.tree[y].pa
        x_type == get_child_type(g, x)
        y_type == get_child_type(g, y)
    IN With([g EXCEPT !.tree[z].ch[y_type] = x], LAMBDA g1 :
       With([g1 EXCEPT !.tree[x].pa = z], LAMBDA g2 :
       With([g2 EXCEPT !.tree[y].ch[x_type] = g2.tree[x].ch[1 - x_type]], LAMBDA g3 :
       With(IF g3.tree[x].ch[1 - x_type] # 0
            THEN [g3 EXCEPT !.tree[g3.tree[x].ch[1 - x_type]].pa = y]
            ELSE g3, LAMBDA g4 :
       With([g4 EXCEPT !.tree[x].ch[1 - x_type] = y], LAMBDA g5 :
       With([g5 EXCEPT !.tree[y].pa = x], LAMBDA g6 :
       With(push_up(g6, y), LAMBDA g7 :
       push_up(g7, x))))))))

\* rotate: the stores in the order of the code, each reading the state the
\* stores before it left.
rotate(g, x) ==
    LET y == g.tree[x].pa
        z == g.tree[y].pa
        x_type == get_child_type(g, x)
        y_type == get_child_type(g, y)
    IN With(IF z # 0 THEN [g EXCEPT !.tree[z].ch[y_type] = x] ELSE g, LAMBDA g1 :
       With([g1 EXCEPT !.tree[x].pa = z], LAMBDA g2 :
       With([g2 EXCEPT !.tree[y].ch[x_type] = g2.tree[x].ch[1 - x_type]], LAMBDA g3 :
       With(IF g3.tree[x].ch[1 - x_type] # 0
            THEN [g3 EXCEPT !.tree[g3.tree[x].ch[1 - x_type]].pa = y]
            ELSE g3, LAMBDA g4 :
       With([g4 EXCEPT !.tree[x].ch[1 - x_type] = y], LAMBDA g5 :
       With([g5 EXCEPT !.tree[y].pa = x], LAMBDA g6 :
       With(push_up(g6, y), LAMBDA g7 :
       push_up(g7, x))))))))

\* One iteration of the while loop of splay.
splay_step(g, x, goal_pa) ==
    LET y == g.tree[x].pa
        z == g.tree[y].pa
    IN With(IF z # goal_pa THEN push_down(g, z) ELSE g, LAMBDA g1 :
       With(push_down(g1, y), LAMBDA g2 :
       With(push_down(g2, x), LAMBDA g3 :
       IF z = goal_pa THEN rotate(g3, x)
       ELSE IF get_child_type(g3, x) = get_child_type(g3, y)
            THEN With(rotate(g3, y), LAMBDA g4 : rotate(g4, x))
            ELSE With(rotate(g3, x), LAMBDA g4 : rotate(g4, x)))))

RECURSIVE splay_loop(_, _, _)
splay_loop(g, x, goal_pa) ==
    IF g.tree[x].pa = goal_pa THEN g
    ELSE With(splay_step(g, x, goal_pa), LAMBDA g1 : splay_loop(g1, x, goal_pa))

\* Faulty splay: `root` is stored whatever the goal.
splay_RootAlways(g, x, goal_pa) ==
    With(splay_loop(g, x, goal_pa), LAMBDA g1 : [g1 EXCEPT !.root = x])

splay(g, x, goal_pa) ==
    With(splay_loop(g, x, goal_pa), LAMBDA g1 :
    IF goal_pa = 0 THEN [g1 EXCEPT !.root = x] ELSE g1)

\* A fresh node as new_node writes it.
NodeInit(key_val, parent_node) ==
    [pa |-> parent_node, ch |-> [i \in 0..1 |-> 0], key |-> key_val,
     sum |-> key_val, lazy |-> 0, sz |-> 1]

\* Faulty new_node: the lazy tag of the slot is not reset.
new_node_KeepLazy(g, key_val, parent_node) ==
    LET h == g.tot_nodes + 1 IN
    [g EXCEPT !.tot_nodes = h,
              !.tree[h] = [NodeInit(key_val, parent_node) EXCEPT !.lazy = g.tree[h].lazy],
              !.oob = @ \/ (h >= MAXN)]

\* new_node: the new handle is g'.tot_nodes; there is no capacity test. A
\* handle >= MAXN is outside `tree`: the stores land in the memory past the
\* array, which is recorded in oob.
new_node(g, key_val, parent_node) ==
    LET h == g.tot_nodes + 1 IN
    [g EXCEPT !.tot_nodes = h,
              !.tree[h] = NodeInit(key_val, parent_node),
              !.oob = @ \/ (h >= MAXN)]

\* build_recursive over arr[l_idx..r_idx] (0-indexed as in the code; the
\* sequence arr is 1-indexed here). Returns the state and the subtree root.
RECURSIVE build_recursive(_, _, _, _, _)
build_recursive(g, arr, l_idx, r_idx, parent_node) ==
    IF l_idx > r_idx THEN [g |-> g, node |-> 0]
    ELSE LET mid_idx == l_idx + (r_idx - l_idx) \div 2 IN
         With(new_node(g, arr[mid_idx + 1], parent_node), LAMBDA g1 :
         LET curr_node == g1.tot_nodes IN
         With(build_recursive(g1, arr, l_idx, mid_idx - 1, curr_node), LAMBDA L :
         With([L.g EXCEPT !.tree[curr_node].ch[0] = L.node], LAMBDA g2 :
         With(build_recursive(g2, arr, mid_idx + 1, r_idx, curr_node), LAMBDA R :
         With([R.g EXCEPT !.tree[curr_node].ch[1] = R.node], LAMBDA g3 :
         [g |-> push_up(g3, curr_node), node |-> curr_node])))))

\* The descent loop of find_kth, from node curr with k_rank still to skip.
RECURSIVE find_loop(_, _, _)
find_loop(g, curr, k_rank) ==
    With(push_down(g, curr), LAMBDA g1 :
    LET left_sz == g1.tree[g1.tree[curr].ch[0]].sz IN
    IF k_rank <= left_sz THEN find_loop(g1, g1.tree[curr].ch[0], k_rank)
    ELSE IF k_rank = left_sz + 1 THEN [g |-> g1, node |-> curr]
    ELSE find_loop(g1, g1.tree[curr].ch[1], k_rank - (left_sz + 1)))

\* Faulty find_kth: the node found is splayed to the root.
find_kth_Splays(g, k_rank) ==
    IF k_rank < 1 \/ k_rank > g.tree[g.root].sz THEN [g |-> g, node |-> 0]
    ELSE With(find_loop(g, g.root, k_rank), LAMBDA F :
         [g |-> splay(F.g, F.node, 0), node |-> F.node])

find_kth(g, k_rank) ==
    IF k_rank < 1 \/ k_rank > g.tree[g.root].sz THEN [g |-> g, node |-> 0]
    ELSE find_loop(g, g.root, k_rank)

\* Faulty get_interval_subtree_root: the right boundary is taken at rank
\* r + 2, the last node of the range.
get_interval_subtree_root_RightRankShort(g, l_orig, r_orig) ==
    With(find_kth(g, l_orig + 1), LAMBDA F1 :
    With(splay(F1.g, F1.node, 0), LAMBDA g1 :
    With(find_kth(g1, r_orig + 2), LAMBDA F2 :
    With(splay(F2.g, F2.node, g1.root), LAMBDA g2 :
    [g |-> g2, node |-> g2.tree[F2.node].ch[0]]))))

\* Faulty get_interval_subtree_root: the right boundary is splayed up to the
\* root instead of below it.
get_interval_subtree_root_BothToRoot(g, l_orig, r_orig) ==
    With(find_kth(g, l_orig + 1), LAMBDA F1 :
    With(splay(F1.g, F1.node, 0), LAMBDA g1 :
    With(find_kth(g1, r_orig + 3), LAMBDA F2 :
    With(splay(F2.g, F2.node, 0), LAMBDA g2 :
    [g |-> g2, node |-> g2.tree[F2.node].ch[0]]))))

get_interval_subtree_root(g, l_orig, r_orig) ==
    With(find_kth(g, l_orig + 1), LAMBDA F1 :
    With(splay(F1.g, F1.node, 0), LAMBDA g1 :
    With(find_kth(g1, r_orig + 3), LAMBDA F2 :
    With(splay(F2.g, F2.node, g1.root), LAMBDA g2 :
    [g |-> g2, node |-> g2.tree[F2.node].ch[0]]))))

-----------------------------------------------------------------------------
(* Public operations *)

build_from_sequence(g, initial_sequence) ==
    With([g EXCEPT !.tot_nodes = 0,
                   !.tree[0].sz = 0, !.tree[0].sum = 0,
                   !.tree[0].key = 0, !.tree[0].lazy = 0], LAMBDA g0 :
    With(new_node(g0, 0, 0), LAMBDA g1 :
    With([g1 EXCEPT !.root = g1.tot_nodes], LAMBDA g2 :
    With(new_node(g2, 0, g2.root), LAMBDA g3 :
    With([g3 EXCEPT !.tree[g3.root].ch[1] = g3.tot_nodes], LAMBDA g4 :
    With(build_recursive(g4, initial_sequence, 0,
                         IF initial_sequence = <<>> THEN -1
                         ELSE Len(initial_sequence) - 1,
                         g4.tree[g4.root].ch[1]), LAMBDA B :
    With([B.g EXCEPT !.tree[B.g.tree[B.g.root].ch[1]].ch[0] = B.node], LAMBDA g5 :
    With(push_up(g5, g5.tree[g5.root].ch[1]), LAMBDA g6 :
    push_up(g6, g6.root)))))))))

\* Faulty insert_at_position: the second splay goes to the root too.
insert_at_position_BothToRoot(g, pos, val) ==
    With(find_kth(g, pos + 1), LAMBDA F1 :
    With(splay(F1.g, F1.node, 0), LAMBDA g1 :
    With(find_kth(g1, pos + 2), LAMBDA F2 :
    LET next_node == F2.node IN
    With(splay(F2.g, next_node, 0), LAMBDA g2 :
    With(new_node(g2, val, next_node), LAMBDA g3 :
    With([g3 EXCEPT !.tree[next_node].ch[0] = g3.tot_nodes], LAMBDA g4 :
    With(push_up(g4, next_node), LAMBDA g5 :
    push_up(g5, g5.root))))))))

insert_at_position(g, pos, val) ==
    With(find_kth(g, pos + 1), LAMBDA F1 :
    With(splay(F1.g, F1.node, 0), LAMBDA g1 :
    With(find_kth(g1, pos + 2), LAMBDA F2 :
    LET next_node == F2.node IN
    With(splay(F2.g, next_node, g1.root), LAMBDA g2 :
    With(new_node(g2, val, next_node), LAMBDA g3 :
    With([g3 EXCEPT !.tree[next_node].ch[0] = g3.tot_nodes], LAMBDA g4 :
    With(push_up(g4, next_node), LAMBDA g5 :
    push_up(g5, g5.root))))))))

\* Faulty delete_at_position: the right boundary is taken one rank further
\* (rank pos + 4) where the tree has such a rank.
delete_at_position_WideRange(g, pos) ==
    With(find_kth(g, pos + 1), LAMBDA F1 :
    With(splay(F1.g, F1.node, 0), LAMBDA g1 :
    With(find_kth(g1, IF pos + 4 <= g1.tree[g1.root].sz THEN pos + 4 ELSE pos + 3), LAMBDA F2 :
    LET next_node == F2.node IN
    With(splay(F2.g, next_node, g1.root), LAMBDA g2 :
    With([g2 EXCEPT !.tree[next_node].ch[0] = 0], LAMBDA g3 :
    With(push_up(g3, next_node), LAMBDA g4 :
    push_up(g4, g4.root)))))))

\* Faulty delete_at_position: both ranks one too small.
delete_at_position_RankOffByOne(g, pos) ==
    With(find_kth(g, pos), LAMBDA F1 :
    With(splay(F1.g, F1.node, 0), LAMBDA g1 :
    With(find_kth(g1, pos + 2), LAMBDA F2 :
    LET next_node == F2.node IN
    With(splay(F2.g, next_node, g1.root), LAMBDA g2 :
    With([g2 EXCEPT !.tree[next_node].ch[0] = 0], LAMBDA g3 :
    With(push_up(g3, next_node), LAMBDA g4 :
    push_up(g4, g4.root)))))))

\* Faulty delete_at_position: the allocation count is taken back.
delete_at_position_Reclaim(g, pos) ==
    With(find_kth(g, pos + 1), LAMBDA F1 :
    With(splay(F1.g, F1.node, 0), LAMBDA g1 :
    With(find_kth(g1, pos + 3), LAMBDA F2 :
    LET next_node == F2.node IN
    With(splay(F2.g, next_node, g1.root), LAMBDA g2 :
    With([g2 EXCEPT !.tree[next_node].ch[0] = 0, !.tot_nodes = @ - 1], LAMBDA g3 :
    With(push_up(g3, next_node), LAMBDA g4 :
    push_up(g4, g4.root)))))))

delete_at_position(g, pos) ==
    With(find_kth(g, pos + 1), LAMBDA F1 :
    With(splay(F1.g, F1.node, 0), LAMBDA g1 :
    With(find_kth(g1, pos + 3), LAMBDA F2 :
    LET next_node == F2.node IN
    With(splay(F2.g, next_node, g1.root), LAMBDA g2 :
    With([g2 EXCEPT !.tree[next_node].ch[0] = 0], LAMBDA g3 :
    With(push_up(g3, next_node), LAMBDA g4 :
    push_up(g4, g4.root)))))))

\* Faulty update_range: the tag is put on the parent of the isolated subtree,
\* the right boundary node.
update_range_TagsBoundary(g, l, r, val_to_add) ==
    IF l > r THEN g
    ELSE With(get_interval_subtree_root(g, l, r), LAMBDA I :
         LET subtree_r == I.node IN
         With(apply_lazy_value(I.g, I.g.tree[subtree_r].pa, val_to_add), LAMBDA g1 :
         With(push_up(g1, g1.tree[subtree_r].pa), LAMBDA g2 :
         push_up(g2, g2.tree[g2.tree[subtree_r].pa].pa))))

\* Faulty update_range: the second push_up (the root) is left out.
update_range_NoRootPushUp(g, l, r, val_to_add) ==
    IF l > r THEN g
    ELSE With(get_interval_subtree_root(g, l, r), LAMBDA I :
         LET subtree_r == I.node IN
         With(apply_lazy_value(I.g, subtree_r, val_to_add), LAMBDA g1 :
         push_up(g1, g1.tree[subtree_r].pa)))

update_range(g, l, r, val_to_add) ==
    IF l > r THEN g
    ELSE With(get_interval_subtree_root(g, l, r), LAMBDA I :
         LET subtree_r == I.node IN
         With(apply_lazy_value(I.g, subtree_r, val_to_add), LAMBDA g1 :
         With(push_up(g1, g1.tree[subtree_r].pa), LAMBDA g2 :
         push_up(g2, g2.tree[g2.tree[subtree_r].pa].pa))))

\* Faulty query_sum_range: the empty-range test is off by one (l > r + 1).
query_sum_range_LateReturn(g, l, r) ==
    IF l > r + 1 THEN [g |-> g, ret |-> 0]
    ELSE With(get_interval_subtree_root(g, l, r), LAMBDA I :
         [g |-> I.g, ret |-> I.g.tree[I.node].sum])

\* query_sum_range: the state it leaves and the value it returns.
query_sum_range(g, l, r) ==
    IF l > r THEN [g |-> g, ret |-> 0]
    ELSE With(get_interval_subtree_root(g, l, r), LAMBDA I :
         [g |-> I.g, ret |-> I.g.tree[I.node].sum])

-----------------------------------------------------------------------------
(* The plain-array reference of run_tests (vector<int> model) *)

InsertAt(seq, pos, v) == SubSeq(seq, 1, pos) \o <<v>> \o SubSeq(seq, pos + 1, Len(seq))

DeleteAt(seq, pos) == SubSeq(seq, 1, pos) \o SubSeq(seq, pos + 2, Len(seq))

AddRange(seq, l, r, d) ==
    [i \in 1..Len(seq) |-> IF l + 1 <= i /\ i <= r + 1 THEN seq[i] + d ELSE seq[i]]

RECURSIVE SumRange(_, _, _)
SumRange(seq, l, r) == IF l > r THEN 0 ELSE seq[l + 1] + SumRange(seq, l + 1, r)

-----------------------------------------------------------------------------
(* The program: static zero-initialised globals, then calls of the API *)

Init ==
    /\ tree = [h \in Handles |-> Node0]
    /\ root = 0
    /\ tot_nodes = 0
    /\ oob = FALSE
    /\ model = <<>>
    /\ ret = 0
    /\ last = [op |-> "none", a |-> 0, b |-> 0, c |-> 0]
    /\ detached = {}
    /\ nops = 0
    /\ nbuilds = 0

Built == last.op # "none"

\* The globals after a call that leaves state g.
Becomes(g) ==
    \E v \in {g} :
        /\ tree' = v.tree
        /\ root' = v.root
        /\ tot_nodes' = v.tot_nodes
        /\ oob' = v.oob
        /\ nops' = nops + 1

\* Handles reachable from the root through child links.
RECURSIVE ReachFrom(_, _, _)
ReachFrom(t, frontier, seen) ==
    IF frontier = {} THEN seen
    ELSE LET nxt == {t[x].ch[i] : x \in frontier, i \in 0..1} \ (seen \cup {0})
         IN ReachFrom(t, nxt, seen \cup nxt)

Reach(g) == IF g.root = 0 THEN {} ELSE ReachFrom(g.tree, {g.root}, {g.root})

\* A call may be made: the run is within its budget of calls.
MayCall == ~oob /\ nops < MaxOps

\* build(list), list.size() + 2 nodes within the arena.
Build ==
    /\ MayCall /\ nbuilds < MaxBuilds
    /\ \E n \in 0..MaxBuildLen : \E list \in {BuildList(n)} :
        /\ n + 2 <= MAXN - 1
        /\ Becomes(build_from_sequence(G, list))
        /\ model' = list
        /\ ret' = 0
        /\ last' = [op |-> "build", a |-> n, b |-> 0, c |-> 0]
        /\ detached' = {}
        /\ nbuilds' = nbuilds + 1

\* insert(pos, val), 0 <= pos <= N, one free arena slot left.
Insert ==
    /\ Built /\ MayCall
    /\ tot_nodes + 1 <= MAXN - 1
    /\ \E pos \in 0..Len(model) : \E val \in Vals :
        /\ Becomes(insert_at_position(G, pos, val))
        /\ model' = InsertAt(model, pos, val)
        /\ ret' = 0
        /\ last' = [op |-> "insert", a |-> 0, b |-> 0, c |-> 0]
        /\ UNCHANGED <<detached, nbuilds>>

\* delete(pos), 0 <= pos < N.
Delete ==
    /\ Built /\ MayCall
    /\ \E pos \in 0..(Len(model) - 1) :
       \E g \in {delete_at_position(G, pos)} :
        /\ Becomes(g)
        /\ model' = DeleteAt(model, pos)
        /\ ret' = 0
        /\ last' = [op |-> "delete", a |-> 0, b |-> 0, c |-> 0]
        /\ detached' = detached \cup (Reach(G) \ Reach(g))
        /\ UNCHANGED nbuilds

\* The non-empty ranges a caller may pass: 0 <= l <= r < N.
Ranges(n) == {lr \in (0..(n - 1)) \X (0..(n - 1)) : lr[1] <= lr[2]}

\* Empty ranges l > r, among them the (2, 1) and (0, -1) of run_tests.
EmptyRanges(n) == {<<0, -1>>, <<n, n - 1>>, <<n, -1>>}

\* update_range(l, r, d), 0 <= l <= r < N.
Update ==
    /\ Built /\ MayCall
    /\ \E lr \in Ranges(Len(model)) : \E d \in Deltas :
        /\ Becomes(update_range(G, lr[1], lr[2], d))
        /\ model' = AddRange(model, lr[1], lr[2], d)
        /\ ret' = 0
        /\ last' = [op |-> "update", a |-> lr[1], b |-> lr[2], c |-> d]
        /\ UNCHANGED <<detached, nbuilds>>

\* update_range(l, r, d), l > r.
UpdateEmpty ==
    /\ Built /\ MayCall
    /\ \E lr \in EmptyRanges(Len(model)) : \E d \in Deltas :
        /\ Becomes(update_range(G, lr[1], lr[2], d))
        /\ model' = AddRange(model, lr[1], lr[2], d)
        /\ ret' = 0
        /\ last' = [op |-> "update", a |-> lr[1], b |-> lr[2], c |-> d]
        /\ UNCHANGED <<detached, nbuilds>>

\* query_range(l, r), 0 <= l <= r < N.
Query ==
    /\ Built /\ MayCall
    /\ \E lr \in Ranges(Len(model)) :
       \E Q \in {query_sum_range(G, lr[1], lr[2])} :
        /\ Becomes(Q.g)
        /\ ret' = Q.ret
        /\ last' = [op |-> "query", a |-> lr[1], b |-> lr[2], c |-> 0]
        /\ UNCHANGED <<model, detached, nbuilds>>

\* query_range(l, r), l > r.
QueryEmpty ==
    /\ Built /\ MayCall
    /\ \E lr \in EmptyRanges(Len(model)) :
       \E Q \in {query_sum_range(G, lr[1], lr[2])} :
        /\ Becomes(Q.g)
        /\ ret' = Q.ret
        /\ last' = [op |-> "query", a |-> lr[1], b |-> lr[2], c |-> 0]
        /\ UNCHANGED <<model, detached, nbuilds>>

Next == Build \/ Insert \/ Delete \/ Update \/ UpdateEmpty \/ Query \/ QueryEmpty

Spec == Init /\ [][Next]_vars

-----------------------------------------------------------------------------
(* Calls beyond the capacity: new_node has no capacity test, so the store to
   tree[MAXN] is undefined behaviour. Two outcomes are modelled. "stored": the
   memory past the array takes the stores and gives them back when read (the
   run goes on as if the array were one slot longer). "trapped": the first
   store of new_node outside the array stops the process, after tot_nodes++.
   Either way oob is set and nothing more is modelled of the run. *)

\* The state with the memory just past the array as one more slot (every
\* field of it is written by new_node before it is read).
Extended(g) ==
    [g EXCEPT !.tree = [h \in 0..MAXN |-> IF h \in Handles THEN g.tree[h] ELSE Node0]]

\* The state with the arena alone.
Arena(g) == [g EXCEPT !.tree = [h \in Handles |-> g.tree[h]]]

\* new_node when a store outside the array traps.
new_node_trap(g, key_val, parent_node) ==
    IF g.tot_nodes + 1 >= MAXN
    THEN [g EXCEPT !.tot_nodes = @ + 1, !.oob = TRUE]
    ELSE new_node(g, key_val, parent_node)

\* build_recursive when a store outside the array traps: once oob is set the
\* process has stopped and nothing more is stored.
RECURSIVE build_recursive_trap(_, _, _, _, _)
build_recursive_trap(g, arr, l_idx, r_idx, parent_node) ==
    IF l_idx > r_idx THEN [g |-> g, node |-> 0]
    ELSE LET mid_idx == l_idx + (r_idx - l_idx) \div 2 IN
         With(new_node_trap(g, arr[mid_idx + 1], parent_node), LAMBDA g1 :
         LET curr_node == g1.tot_nodes IN
         IF g1.oob THEN [g |-> g1, node |-> 0] ELSE
         With(build_recursive_trap(g1, arr, l_idx, mid_idx - 1, curr_node), LAMBDA L :
         IF L.g.oob THEN L ELSE
         With([L.g EXCEPT !.tree[curr_node].ch[0] = L.node], LAMBDA g2 :
         With(build_recursive_trap(g2, arr, mid_idx + 1, r_idx, curr_node), LAMBDA R :
         IF R.g.oob THEN R ELSE
         With([R.g EXCEPT !.tree[curr_node].ch[1] = R.node], LAMBDA g3 :
         [g |-> push_up(g3, curr_node), node |-> curr_node])))))

\* build_from_sequence when a store outside the array traps (MAXN >= 3: the
\* two dummies are within the array).
build_from_sequence_trap(g, initial_sequence) ==
    With([g EXCEPT !.tot_nodes = 0,
                   !.tree[0].sz = 0, !.tree[0].sum = 0,
                   !.tree[0].key = 0, !.tree[0].lazy = 0], LAMBDA g0 :
    With(new_node(g0, 0, 0), LAMBDA g1 :
    With([g1 EXCEPT !.root = g1.tot_nodes], LAMBDA g2 :
    With(new_node(g2, 0, g2.root), LAMBDA g3 :
    With([g3 EXCEPT !.tree[g3.root].ch[1] = g3.tot_nodes], LAMBDA g4 :
    With(build_recursive_trap(g4, initial_sequence, 0,
                              Len(initial_sequence) - 1,
                              g4.tree[g4.root].ch[1]), LAMBDA B :
    IF B.g.oob THEN B.g ELSE
    With([B.g EXCEPT !.tree[B.g.tree[B.g.root].ch[1]].ch[0] = B.node], LAMBDA g5 :
    With(push_up(g5, g5.tree[g5.root].ch[1]), LAMBDA g6 :
    push_up(g6, g6.root)))))))))

\* insert_at_position when a store outside the array traps.
insert_at_position_trap(g, pos, val) ==
    With(find_kth(g, pos + 1), LAMBDA F1 :
    With(splay(F1.g, F1.node, 0), LAMBDA g1 :
    With(find_kth(g1, pos + 2), LAMBDA F2 :
    LET next_node == F2.node IN
    With(splay(F2.g, next_node, g1.root), LAMBDA g2 :
    With(new_node_trap(g2, val, next_node), LAMBDA g3 :
    IF g3.oob THEN g3 ELSE
    With([g3 EXCEPT !.tree[next_node].ch[0] = g3.tot_nodes], LAMBDA g4 :
    With(push_up(g4, next_node), LAMBDA g5 :
    push_up(g5, g5.root))))))))

Outcomes == {"stored", "trapped"}

\* insert(pos, val) with the arena full: tot_nodes = MAXN - 1.
InsertFull ==
    /\ Built /\ MayCall
    /\ tot_nodes + 1 > MAXN - 1
    /\ \E pos \in 0..Len(model) : \E val \in Vals : \E outcome \in Outcomes :
        /\ Becomes(IF outcome = "stored"
                   THEN Arena(insert_at_position(Extended(G), pos, val))
                   ELSE insert_at_position_trap(G, pos, val))
        /\ model' = InsertAt(model, pos, val)
        /\ ret' = 0
        /\ last' = [op |-> "insert", a |-> 0, b |-> 0, c |-> 0]
        /\ UNCHANGED <<detached, nbuilds>>

\* build(list) with list.size() + 2 = MAXN: one node more than the arena holds.
BuildTooLong ==
    /\ MayCall /\ nbuilds < MaxBuilds
    /\ \E list \in {BuildList(MAXN - 2)} : \E outcome \in Outcomes :
        /\ Becomes(IF outcome = "stored"
                   THEN Arena(build_from_sequence(Extended(G), list))
                   ELSE build_from_sequence_trap(G, list))
        /\ model' = list
        /\ ret' = 0
        /\ last' = [op |-> "build", a |-> Len(list), b |-> 0, c |-> 0]
        /\ detached' = {}
        /\ nbuilds' = nbuilds + 1

NextOverflow == Next \/ InsertFull \/ BuildTooLong

\* The program with calls beyond the capacity allowed.
SpecOverflow == Init /\ [][NextOverflow]_vars

-----------------------------------------------------------------------------
(* What a state holds: traversal, logical values, ranks *)

\* In-order traversal below x: each node's handle with its logical value, the
\* key plus the lazy tags pending on its strict ancestors (pend). A descent
\* deeper than the arena has nodes is a cycle, reported as handle -1.
RECURSIVE InorderFrom(_, _, _, _)
InorderFrom(t, x, pend, fuel) ==
    IF x = 0 THEN <<>>
    ELSE IF fuel = 0 THEN <<[h |-> -1, v |-> 0]>>
    ELSE InorderFrom(t, t[x].ch[0], pend + t[x].lazy, fuel - 1)
         \o <<[h |-> x, v |-> t[x].key + pend]>>
         \o InorderFrom(t, t[x].ch[1], pend + t[x].lazy, fuel - 1)

Inorder(g) == InorderFrom(g.tree, g.root, 0, MAXN)

IsDummy(e) == e.h \in {HeadDummy, TailDummy}

\* The values of the non-dummy nodes in in-order.
LogicalSeq(g) ==
    LET nd == SelectSeq(Inorder(g), LAMBDA e : ~IsDummy(e))
    IN [i \in 1..Len(nd) |-> nd[i].v]

\* What query_range(l, r) would return in state g.
QueryRet(g, l, r) == query_sum_range(g, l, r).ret

\* Number of positions of [a, b] that lie in [l, r].
Overlap(a, b, l, r) == Cardinality((a..b) \cap (l..r))

-----------------------------------------------------------------------------
(* Claims *)

\* C1: in every interleaving of build / insert / delete / update_range /
\* query_range within the preconditions, each query_range(l, r) returns the
\* sum of positions l..r of the plain array that underwent the same calls
\* (0 for an empty range).
C1_QueryMatchesArray ==
    last.op = "query" => ret = SumRange(model, last.a, last.b)

\* C1 witness: a query over two or more positions, after an insert (value 5),
\* an update (+1 on it) and a delete.
C1_Witness ==
    /\ last.op = "query" /\ last.a < last.b
    /\ detached # {}
    /\ \E i \in 1..Len(model) : model[i] = 6 /\ last.a + 1 <= i /\ i <= last.b + 1
    /\ ret = SumRange(model, last.a, last.b)

\* C2: after every public operation the in-order traversal of the nodes
\* reachable from root, dummies excluded, each value taken as key plus the lazy
\* tags pending on its strict ancestors, is the logical sequence.
C2_InorderIsSequence ==
    Built => LogicalSeq(G) = model

\* C2 witness: three elements in the tree, one of them with a tag still
\* pending on an ancestor (its key differs from its logical value).
C2_Witness ==
    /\ Len(model) = 3
    /\ LogicalSeq(G) = model
    /\ \E i \in 1..Len(Inorder(G)) :
          LET e == Inorder(G)[i] IN e.h > 0 /\ tree[e.h].key # e.v

\* The aggregates of node x agree with those of its children.
SizeOk(g, x) ==
    LET t == g.tree IN t[x].sz = t[t[x].ch[0]].sz + t[t[x].ch[1]].sz + 1

SumOk(g, x) ==
    LET t == g.tree IN t[x].sum = t[t[x].ch[0]].sum + t[t[x].ch[1]].sum + t[x].key

SumOkPending(g, x) ==
    LET t == g.tree IN
    t[x].sum = t[t[x].ch[0]].sum + t[t[x].ch[1]].sum + t[x].key
               + t[x].lazy * (t[t[x].ch[0]].sz + t[t[x].ch[1]].sz)

\* C3: after every public operation, for every node x reachable from root,
\* size(x) = size(left) + size(right) + 1, sum(x) = sum(left) + sum(right) +
\* key(x) once push_down(x) has resolved x's tag, and, before that push-down,
\* sum(x) = sum(left) + sum(right) + key(x) + lazy(x) * (size(left) + size(right)).
C3_AggregatesConsistent ==
    \A x \in Reach(G) :
        /\ SizeOk(G, x)
        /\ SumOkPending(G, x)
        /\ SizeOk(push_down(G, x), x)
        /\ SumOk(push_down(G, x), x)

\* C3 witness: after an update_range, a reachable node with children and a
\* pending tag, below a boundary node and a root that were pushed up.
C3_Witness ==
    /\ last.op = "update" /\ last.a < last.b
    /\ \E x \in Reach(G) :
          /\ tree[x].lazy # 0
          /\ tree[x].ch[0] # 0 \/ tree[x].ch[1] # 0
          /\ tree[x].pa # 0 /\ tree[tree[x].pa].pa = root
          /\ SumOkPending(G, x) /\ ~SumOk(G, x)

\* C4: update_range(l, r, d) with 0 <= l <= r < N raises what query_range(l, r)
\* returns by d * (r - l + 1), leaves what query_range(a, b) returns for every
\* range disjoint from [l, r], and raises every other range's result by d
\* times the number of positions it shares with [l, r] (updates accumulate).
C4_RangeAdditivity ==
    [][(last'.op = "update" /\ last'.a <= last'.b) =>
         LET l == last'.a
             r == last'.b
             d == last'.c
         IN /\ QueryRet(GNext, l, r) = QueryRet(G, l, r) + d * (r - l + 1)
            /\ \A ab \in Ranges(Len(model)) :
                  QueryRet(GNext, ab[1], ab[2])
                    = QueryRet(G, ab[1], ab[2]) + d * Overlap(ab[1], ab[2], l, r)
       ]_vars

\* C4 witness: an update of a range of two positions on a sequence of three
\* whose values already differ from what was built or inserted (an earlier
\* update overlapped it).
C4_Witness ==
    /\ last.op = "update" /\ last.b = last.a + 1
    /\ Len(model) = 3
    /\ \E i \in 1..3 : model[i] \notin {10, 20, 30, 5, 10 + last.c, 20 + last.c,
                                       30 + last.c, 5 + last.c}
    /\ QueryRet(G, last.a, last.b) = SumRange(model, last.a, last.b)

\* C5: a build or insert that would push the allocation count past the
\* arena's capacity fails before it modifies any existing node, and no node
\* is ever written at a handle outside the arena.
C5_CapacitySignalled ==
    [][/\ (last'.op = "insert" /\ tot_nodes + 1 > MAXN - 1) =>
             UNCHANGED <<tree, root, tot_nodes>>
       /\ (last'.op = "build" /\ last'.a + 2 > MAXN - 1) =>
             UNCHANGED <<tree, root, tot_nodes>>
       /\ ~oob'
      ]_vars

\* Rank (1-based in-order position) of handle h, 0 when it is not in the tree.
RankOf(g, h) ==
    LET io == Inorder(g)
        at == {i \in 1..Len(io) : io[i].h = h}
    IN IF at = {} THEN 0 ELSE CHOOSE i \in at : TRUE

\* C6: in every state after build, both dummies are reachable from root, the
\* head dummy at in-order rank 1 and the tail dummy at rank N + 2, and
\* size(root) = N + 2, N the element count, also when N = 0.
C6_DummiesAtEnds ==
    Built =>
        /\ {HeadDummy, TailDummy} \subseteq Reach(G)
        /\ RankOf(G, HeadDummy) = 1
        /\ RankOf(G, TailDummy) = Len(model) + 2
        /\ Len(Inorder(G)) = Len(model) + 2
        /\ tree[root].sz = Len(model) + 2

\* C6 witness: the sequence emptied by deletes, the dummies alone in the tree.
C6_Witness ==
    /\ last.op = "delete" /\ model = <<>>
    /\ Cardinality(detached) >= 2
    /\ Reach(G) = {HeadDummy, TailDummy}

\* C7: for l > r, query_range(l, r) returns 0 and update_range(l, r, d) does
\* nothing, and both leave the whole state as it was: root, allocation count
\* and every field of every node.
C7_EmptyRangeFrame ==
    [][(last'.op \in {"query", "update"} /\ last'.a > last'.b) =>
         /\ tree' = tree /\ root' = root /\ tot_nodes' = tot_nodes
         /\ model' = model
         /\ (last'.op = "query" => ret' = 0)
       ]_vars

\* C7 witness: an empty-range query answered 0 on a tree that holds a pending
\* tag and whose root is not the head dummy.
C7_Witness ==
    /\ last.op = "query" /\ last.a > last.b /\ ret = 0
    /\ root # HeadDummy
    /\ \E x \in Reach(G) : tree[x].lazy # 0

\* C8: a query_range(l, r) with 0 <= l <= r < N leaves the logical sequence
\* and the result of every query_range(a, b) as they were, and asked again it
\* returns the same value.
C8_QueryReadOnly ==
    [][(last'.op = "query" /\ last'.a <= last'.b) =>
         /\ LogicalSeq(GNext) = LogicalSeq(G)
         /\ QueryRet(GNext, last'.a, last'.b) = ret'
         /\ \A ab \in Ranges(Len(model)) :
               QueryRet(GNext, ab[1], ab[2]) = QueryRet(G, ab[1], ab[2])
       ]_vars

\* C8 witness: a query that changed the root and found tags pending.
C8_Witness ==
    /\ last.op = "query" /\ last.a <= last.b /\ last.a > 0
    /\ root \notin {HeadDummy, TailDummy}
    /\ \E x \in Reach(G) : tree[x].lazy # 0
    /\ ret = SumRange(model, last.a, last.b) /\ ret # 0

\* C9: build(list of N) sets the allocation count to N + 2; insert raises it
\* by 1 and its new handle was not reachable and is not a detached one;
\* delete, update_range and query_range leave it; a node detached by delete
\* is not reachable again before the next build; so the count is the current
\* length plus 2 plus the number of deletes since the build.
C9_ArenaOnlyGrows ==
    [][/\ last'.op = "build" => tot_nodes' = Len(model') + 2
       /\ last'.op = "insert" =>
             /\ tot_nodes' = tot_nodes + 1
             /\ tot_nodes' \notin Reach(G)
             /\ tot_nodes' \notin detached
             /\ tot_nodes' \in Reach(GNext)
       /\ last'.op \in {"delete", "update", "query"} => tot_nodes' = tot_nodes
       /\ last'.op = "delete" => Cardinality(detached') = Cardinality(detached) + 1
       /\ detached' \cap Reach(GNext) = {}
       /\ tot_nodes' = Len(model') + 2 + Cardinality(detached')
      ]_vars

\* C9 witness: an insert after a delete, the deleted node still detached and
\* the new node on a fresh handle.
C9_Witness ==
    /\ last.op = "insert"
    /\ detached # {}
    /\ tot_nodes \in Reach(G)
    /\ \A h \in detached : h < tot_nodes /\ h \notin Reach(G)

\* C10: the null node (handle 0) has size, sum, key and lazy 0 in every state,
\* and no operation changes any of its fields.
C10_NullNodeUntouched ==
    tree[0] = Node0

\* C10 witness: rotations took place around the null node's neighbours: the
\* root is an element whose parent link is the null handle, and a rotation
\* with a null inner subtree happened (a node without children in the tree).
C10_Witness ==
    /\ tree[0] = Node0
    /\ last.op \in {"insert", "delete", "update", "query"}
    /\ root \notin {HeadDummy, TailDummy} /\ tree[root].pa = 0
    /\ \E x \in Reach(G) : tree[x].ch[0] = 0 /\ tree[x].ch[1] = 0

-----------------------------------------------------------------------------
(* The loops of find_kth and splay, iteration by iteration *)

\* The two ranks a public operation hands to find_kth: k1 = pos + 1 or l + 1,
\* then k2 = pos + 2, pos + 3 or r + 3, both within 1..size(root).
RankPairs(g) ==
    LET n == g.tree[g.root].sz
    IN {k \in (1..n) \X (1..n) : k[1] < k[2]}

\* One iteration of the while loop of find_kth at node curr: the state after
\* push_down(curr), the node and rank of the next iteration, and whether
\* the loop returned curr.
find_step(g, curr, k_rank) ==
    With(push_down(g, curr), LAMBDA g1 :
    LET left_sz == g1.tree[g1.tree[curr].ch[0]].sz IN
    IF k_rank <= left_sz
    THEN [g |-> g1, curr |-> g1.tree[curr].ch[0], k_rank |-> k_rank, found |-> FALSE]
    ELSE IF k_rank = left_sz + 1
    THEN [g |-> g1, curr |-> curr, k_rank |-> k_rank, found |-> TRUE]
    ELSE [g |-> g1, curr |-> g1.tree[curr].ch[1],
          k_rank |-> k_rank - (left_sz + 1), found |-> FALSE])

\* At most n iterations of the loop of find_kth, stopped when it steps onto
\* the null handle.
RECURSIVE find_iter(_, _, _, _)
find_iter(g, curr, k_rank, n) ==
    IF n = 0 \/ curr = 0
    THEN [g |-> g, curr |-> curr, k_rank |-> k_rank, found |-> FALSE]
    ELSE With(find_step(g, curr, k_rank), LAMBDA s :
         IF s.found THEN s ELSE find_iter(s.g, s.curr, s.k_rank, n - 1))

\* find_kth with its loop cut after size(root) iterations.
find_kth_bounded(g, k_rank) ==
    IF k_rank < 1 \/ k_rank > g.tree[g.root].sz
    THEN [g |-> g, curr |-> 0, k_rank |-> k_rank, found |-> FALSE]
    ELSE find_iter(g, g.root, k_rank, g.tree[g.root].sz)

\* At most n iterations of the while loop of splay.
RECURSIVE splay_iter(_, _, _, _)
splay_iter(g, x, goal_pa, n) ==
    IF n = 0 \/ g.tree[x].pa = goal_pa THEN g
    ELSE With(splay_step(g, x, goal_pa), LAMBDA g1 : splay_iter(g1, x, goal_pa, n - 1))

\* splay with its loop cut after n iterations.
splay_bounded(g, x, goal_pa, n) ==
    With(splay_iter(g, x, goal_pa, n), LAMBDA g1 :
    IF goal_pa = 0 THEN [g1 EXCEPT !.root = x] ELSE g1)

\* C11: every public operation called with valid input terminates: for both
\* ranks it hands to find_kth, the descent returns a non-null node within
\* size(root) iterations and never steps onto the null handle, and each of
\* the two splays reaches parent(x) = goal within size(root) iterations of its
\* loop; the loops of find_kth and splay then return these same results.
C11_OperationsTerminate ==
    Built =>
      \A k \in RankPairs(G) : \A n \in {tree[root].sz} :
      \A F1 \in {find_kth_bounded(G, k[1])} :
        /\ F1.found /\ F1.curr # 0
        /\ \A g1 \in {splay_bounded(F1.g, F1.curr, 0, n)} :
             /\ g1.tree[F1.curr].pa = 0 /\ g1.root = F1.curr
             /\ \A F2 \in {find_kth_bounded(g1, k[2])} :
                  /\ F2.found /\ F2.curr # 0
                  /\ \A g2 \in {splay_bounded(F2.g, F2.curr, g1.root, n)} :
                       /\ g2.tree[F2.curr].pa = g1.root
                       /\ find_kth(G, k[1]) = [g |-> F1.g, node |-> F1.curr]
                       /\ splay(F1.g, F1.curr, 0) = g1
                       /\ find_kth(g1, k[2]) = [g |-> F2.g, node |-> F2.curr]
                       /\ splay(F2.g, F2.curr, g1.root) = g2

\* Number of parent links from x up to the root (cut at MAXN).
RECURSIVE Depth(_, _, _)
Depth(g, x, fuel) ==
    IF g.tree[x].pa = 0 \/ fuel = 0 THEN 0 ELSE 1 + Depth(g, g.tree[x].pa, fuel - 1)

\* C11 witness: a tree of five nodes in a chain, where the descent to the
\* deepest node takes five iterations and its splay more than one.
C11_Witness ==
    /\ Built /\ tree[root].sz = 5
    /\ \E x \in Reach(G) : Depth(G, x, MAXN) = 4
    /\ \E k \in 1..5 :
         /\ find_iter(G, root, k, 4).found = FALSE
         /\ find_iter(G, root, k, 5).found
         /\ \E x \in {find_kth(G, k).node} :
              /\ splay_iter(G, x, 0, 1).tree[x].pa # 0
              /\ splay(G, x, 0).tree[x].pa = 0

-----------------------------------------------------------------------------
(* build_from_sequence from any prior state *)

\* The globals as static initialisation leaves them.
Fresh == [tree |-> [h \in Handles |-> Node0], root |-> 0, tot_nodes |-> 0, oob |-> FALSE]

\* The allocated part of a state: root, tot_nodes and tree[0..tot_nodes].
Live(g) ==
    [root |-> g.root, tot_nodes |-> g.tot_nodes,
     tree |-> [h \in 0..g.tot_nodes |-> g.tree[h]]]

\* The state with every slot above tot_nodes as static initialisation left it.
Clean(g) ==
    [g EXCEPT !.tree = [h \in Handles |-> IF h <= g.tot_nodes THEN g.tree[h] ELSE Node0]]

\* The values of the in-order traversal below x, and its handles.
ValuesBelow(g, x) ==
    LET io == InorderFrom(g.tree, x, 0, MAXN) IN [i \in 1..Len(io) |-> io[i].v]

HandlesBelow(g, x) ==
    LET io == InorderFrom(g.tree, x, 0, MAXN) IN [i \in 1..Len(io) |-> io[i].h]

\* C12: from any prior state, build(list of N elements) leaves tot_nodes = N + 2,
\* the head dummy (key 0, no left child, no parent) as root, the tail dummy
\* (key 0, no right child) as its right child, the list in order below the tail
\* dummy's left child, every lazy tag 0, and the same allocated state as the
\* build from the initial state; and what insert, delete, update_range and
\* query_range leave and return never depends on a slot above tot_nodes.
C12_BuildDiscardsState ==
    /\ \A n \in 0..MaxBuildLen : \A list \in {BuildList(n)} :
       \A B \in {build_from_sequence(G, list)} :
         /\ B.tot_nodes = n + 2
         /\ B.root = HeadDummy
         /\ B.tree[HeadDummy] = [pa |-> 0, ch |-> [i \in 0..1 |-> IF i = 1 THEN TailDummy ELSE 0],
                                 key |-> 0, sum |-> SumRange(list, 0, n - 1),
                                 lazy |-> 0, sz |-> n + 2]
         /\ B.tree[TailDummy].pa = HeadDummy /\ B.tree[TailDummy].key = 0
         /\ B.tree[TailDummy].ch[1] = 0
         /\ ValuesBelow(B, B.tree[TailDummy].ch[0]) = list
         /\ Reach(B) = 1..(n + 2)
         /\ \A h \in 1..(n + 2) : B.tree[h].lazy = 0
         /\ LogicalSeq(B) = list
         /\ Live(B) = Live(build_from_sequence(Fresh, list))
    /\ Built =>
         /\ Reach(G) \subseteq 1..tot_nodes
         /\ Clean(G) # G =>
              /\ \A pos \in 0..Len(model) : \A val \in Vals :
                    tot_nodes + 1 <= MAXN - 1 =>
                       Live(insert_at_position(G, pos, val))
                         = Live(insert_at_position(Clean(G), pos, val))
              /\ \A pos \in 0..(Len(model) - 1) :
                    Live(delete_at_position(G, pos)) = Live(delete_at_position(Clean(G), pos))
              /\ \A lr \in Ranges(Len(model)) :
                    /\ \A d \in Deltas :
                          Live(update_range(G, lr[1], lr[2], d))
                            = Live(update_range(Clean(G), lr[1], lr[2], d))
                    /\ \A Q \in {query_sum_range(G, lr[1], lr[2])} :
                       \A QC \in {query_sum_range(Clean(G), lr[1], lr[2])} :
                          Q.ret = QC.ret /\ Live(Q.g) = Live(QC.g)

\* C12 witness: a second build, of a shorter list than the tree held, made
\* from a state with a pending tag, a detached node and a root that was not
\* the head dummy; the slots above tot_nodes still hold that state.
C12_Witness ==
    /\ last.op = "build" /\ nbuilds = 2 /\ last.a = 1
    /\ root = HeadDummy /\ tot_nodes = 3 /\ LogicalSeq(G) = BuildList(1)
    /\ \E h \in Handles : h > tot_nodes /\ tree[h].lazy # 0
    /\ \E h \in Handles : h > tot_nodes /\ tree[h].pa = 0 /\ tree[h].sz > 1
    /\ Live(G) = Live(build_from_sequence(Fresh, BuildList(1)))

-----------------------------------------------------------------------------
(* get_interval_subtree_root (isolate) *)

\* C13: for any reachable state and any 0 <= l <= r < N, after isolate(l, r)
\* the node that was at in-order rank l + 1 is the root, the node that was at
\* rank r + 3 is the root's right child, and the returned node is the left
\* child of that right child, non-null, the root of a subtree whose nodes are
\* the nodes that were at ranks l + 2 .. r + 2 in that order (size r - l + 1)
\* and whose sum field is the sum of the current values at positions l..r.
C13_IsolateShape ==
    Built =>
      \A lr \in Ranges(Len(model)) :
      \A I \in {get_interval_subtree_root(G, lr[1], lr[2])} :
      \A io \in {Inorder(G)} :
        LET l == lr[1]
            r == lr[2]
            right == I.g.tree[I.g.root].ch[1]
        IN /\ I.g.root = io[l + 1].h
           /\ I.g.tree[I.g.root].pa = 0
           /\ right = io[r + 3].h
           /\ I.g.tree[right].pa = I.g.root
           /\ I.node = I.g.tree[right].ch[0]
           /\ I.node # 0
           /\ HandlesBelow(I.g, I.node) = [i \in 1..(r - l + 1) |-> io[l + 1 + i].h]
           /\ I.g.tree[I.node].sz = r - l + 1
           /\ I.g.tree[I.node].sum = SumRange(LogicalSeq(G), l, r)
           /\ I.g.tree[I.node].sum = SumRange([i \in 1..(Len(io) - 2) |-> io[i + 1].v], l, r)

\* C13 witness: the state a query of two positions left: its range isolated
\* below the root's right child, with a tag pending on the isolated subtree,
\* the left boundary being an element and the right one the tail dummy.
C13_Witness ==
    /\ last.op = "query" /\ last.b = last.a + 1
    /\ root \notin {HeadDummy, TailDummy}
    /\ tree[root].ch[1] = TailDummy
    /\ \E sub \in {tree[tree[root].ch[1]].ch[0]} :
         /\ sub # 0 /\ tree[sub].sz = 2 /\ tree[sub].sum = ret
         /\ tree[sub].lazy # 0
         /\ root = Inorder(G)[last.a + 1].h

-----------------------------------------------------------------------------
(* rotate and splay *)

\* The node without parent above x (the root of the tree x is in, also while
\* a splay to goal 0 has not stored `root` yet).
RECURSIVE TopOf(_, _, _)
TopOf(g, x, fuel) ==
    IF g.tree[x].pa = 0 \/ fuel = 0 THEN x ELSE TopOf(g, g.tree[x].pa, fuel - 1)

\* In-order traversal (handles and logical values) of the tree x is in.
InorderTop(g, x) == InorderFrom(g.tree, TopOf(g, x, MAXN), 0, MAXN)

\* The handles of the subtree below x.
SubtreeNodes(g, x) ==
    LET hs == HandlesBelow(g, x) IN {hs[i] : i \in 1..Len(hs)}

\* The state of one iteration of splay after its push_downs, where the
\* first rotate of the iteration is called.
splay_pushed(g, x, goal_pa) ==
    LET y == g.tree[x].pa
        z == g.tree[y].pa
    IN With(IF z # goal_pa THEN push_down(g, z) ELSE g, LAMBDA g1 :
       With(push_down(g1, y), LAMBDA g2 :
       push_down(g2, x)))

\* The rotate calls of one iteration of splay: each with the state g it is
\* called in, the node x it is called on and the state a it leaves.
step_calls(g, x, goal_pa) ==
    LET y == g.tree[x].pa
        z == g.tree[y].pa
    IN With(splay_pushed(g, x, goal_pa), LAMBDA g3 :
       IF z = goal_pa
       THEN With(rotate(g3, x), LAMBDA a1 : <<[g |-> g3, x |-> x, a |-> a1]>>)
       ELSE IF get_child_type(g3, x) = get_child_type(g3, y)
            THEN With(rotate(g3, y), LAMBDA a1 :
                 With(rotate(a1, x), LAMBDA a2 :
                 <<[g |-> g3, x |-> y, a |-> a1], [g |-> a1, x |-> x, a |-> a2]>>))
            ELSE With(rotate(g3, x), LAMBDA a1 :
                 With(rotate(a1, x), LAMBDA a2 :
                 <<[g |-> g3, x |-> x, a |-> a1], [g |-> a1, x |-> x, a |-> a2]>>)))

\* The rotate calls of splay(x, goal_pa) in the order they are made.
RECURSIVE rotate_calls(_, _, _)
rotate_calls(g, x, goal_pa) ==
    IF g.tree[x].pa = goal_pa THEN <<>>
    ELSE With(step_calls(g, x, goal_pa), LAMBDA cs :
         cs \o rotate_calls(cs[Len(cs)].a, x, goal_pa))

\* A rotate call c promotes c.x above its parent y and below y's old parent
\* z, and keeps the in-order sequence of nodes and their values.
RotateKeeps(c) ==
    LET y == c.g.tree[c.x].pa
        z == c.g.tree[y].pa
    IN /\ InorderTop(c.a, c.x) = InorderTop(c.g, c.x)
       /\ c.a.tree[c.x].pa = z /\ c.a.tree[y].pa = c.x
       /\ y \in {c.a.tree[c.x].ch[0], c.a.tree[c.x].ch[1]}
       /\ z # 0 => c.x \in {c.a.tree[z].ch[0], c.a.tree[z].ch[1]}

\* splay(x, goal_pa) called in state g (goal_pa is 0 or the root, x below it).
SplayKeeps(g, x, goal_pa) ==
    \A s \in {splay(g, x, goal_pa)} : \A rc \in {rotate_calls(g, x, goal_pa)} :
        /\ Inorder(s) = Inorder(g)
        /\ s.tree[x].pa = goal_pa
        /\ goal_pa = 0 => s.root = x
        /\ goal_pa = g.root => s.root = g.root
        /\ goal_pa # 0 =>
             LET side == IF x \in SubtreeNodes(g, g.tree[goal_pa].ch[0]) THEN 0 ELSE 1
                 inside == SubtreeNodes(g, g.tree[goal_pa].ch[side])
             IN /\ \A h \in Reach(g) \ (inside \cup {goal_pa}) :
                      s.tree[h].pa = g.tree[h].pa /\ s.tree[h].ch = g.tree[h].ch
                /\ s.tree[goal_pa].pa = g.tree[goal_pa].pa
                /\ s.tree[goal_pa].ch = [g.tree[goal_pa].ch EXCEPT ![side] = x]
                /\ SubtreeNodes(s, x) = inside
        /\ \A i \in 1..Len(rc) : RotateKeeps(rc[i])
        /\ rc # <<>> => s.tree = rc[Len(rc)].a.tree

\* C14: rotate(x) and splay(x, goal) keep the in-order sequence of nodes and
\* every node's logical value; when splay returns parent(x) = goal, root = x if
\* goal is 0 and root is unchanged if goal is the root; and every node outside
\* the subtree below goal on x's side keeps its parent and children, apart
\* from goal's child link, which points at x. Checked in every state a call
\* is made in, for the two splays a public operation makes, each after its
\* find_kth.
C14_SplayPreserves ==
    (Built /\ MayCall) =>
      \A k1 \in 1..(tree[root].sz - 1) :
      \A F1 \in {find_kth(G, k1)} :
        /\ SplayKeeps(F1.g, F1.node, 0)
        /\ \A g1 \in {splay(F1.g, F1.node, 0)} :
           \A k2 \in (k1 + 1)..tree[root].sz :
           \A F2 \in {find_kth(g1, k2)} :
              SplayKeeps(F2.g, F2.node, g1.root)

\* C14 witness: a state where the first splay of an operation takes three
\* rotations with a tag pending above the node, and the second splay, below
\* the new root, takes one more.
C14_Witness ==
    /\ MayCall
    /\ last.op \in {"query", "update"} /\ root \notin {HeadDummy, TailDummy}
    /\ \E k \in RankPairs(G) :
       \E F1 \in {find_kth(G, k[1])} :
         /\ tree[tree[F1.node].pa].lazy # 0
         /\ Len(rotate_calls(F1.g, F1.node, 0)) = 3
         /\ SplayKeeps(F1.g, F1.node, 0)
         /\ \E g1 \in {splay(F1.g, F1.node, 0)} :
            \E F2 \in {find_kth(g1, k[2])} :
              /\ g1.root = F1.node
              /\ Len(rotate_calls(F2.g, F2.node, g1.root)) >= 1
              /\ SplayKeeps(F2.g, F2.node, g1.root)

-----------------------------------------------------------------------------
(* Lazy tags and rotations *)

\* Every rotate call of the trace rc is made on a node x with lazy(x) = 0
\* whose parent has lazy 0.
RotateClean(rc) ==
    \A i \in 1..Len(rc) :
        LET c == rc[i] IN
        /\ c.g.tree[c.x].lazy = 0
        /\ c.g.tree[c.g.tree[c.x].pa].lazy = 0

\* The in-order traversal io with d added to the values at ranks lo..hi.
Raised(io, lo, hi, d) ==
    [i \in 1..Len(io) |->
        [h |-> io[i].h, v |-> io[i].v + (IF lo <= i /\ i <= hi THEN d ELSE 0)]]

\* The traversal io without the handles of the set hs.
Without(io, hs) == SelectSeq(io, LAMBDA e : e.h \notin hs)

\* C15: every time rotate(x) executes inside a public operation, lazy(x) = 0
\* and lazy(parent(x)) = 0 (so the tags of grandparent, parent and x were
\* pushed down in that order before the step); and each update_range(l, r, d)
\* adds d exactly once to the logical value of every node of the range and to
\* no other node, while query_range, insert and delete leave the logical
\* value of every node that stays in the tree as it was.
C15_LazyBeforeRotate ==
    /\ [](Built /\ MayCall =>
            \A k1 \in 1..(tree[root].sz - 1) :
            \A F1 \in {find_kth(G, k1)} :
              /\ RotateClean(rotate_calls(F1.g, F1.node, 0))
              /\ \A g1 \in {splay(F1.g, F1.node, 0)} :
                 \A k2 \in (k1 + 1)..tree[root].sz :
                 \A F2 \in {find_kth(g1, k2)} :
                    RotateClean(rotate_calls(F2.g, F2.node, g1.root)))
    /\ [][\A io \in {Inorder(G)} : \A ion \in {Inorder(GNext)} :
            /\ (last'.op = "update" /\ last'.a <= last'.b) =>
                  ion = Raised(io, last'.a + 2, last'.b + 2, last'.c)
            /\ (last'.op = "update" /\ last'.a > last'.b) => ion = io
            /\ last'.op = "query" => ion = io
            /\ last'.op = "insert" => Without(ion, {tot_nodes'}) = io
            /\ last'.op = "delete" => Without(io, detached' \ detached) = ion
         ]_vars

\* C15 witness: a state left by an update_range, with a tag pending on the
\* parent of a node; find_kth pushes it down and the splay of the node then
\* makes two or more rotations, each on nodes without tag.
C15_Witness ==
    /\ MayCall /\ last.op = "update" /\ last.a <= last.b
    /\ \E k1 \in 1..(tree[root].sz - 1) :
       \E F1 \in {find_kth(G, k1)} :
       \E rc \in {rotate_calls(F1.g, F1.node, 0)} :
         /\ tree[tree[F1.node].pa].lazy # 0
         /\ F1.g.tree[tree[F1.node].pa].lazy = 0
         /\ F1.g.tree[F1.node].key # tree[F1.node].key
         /\ Len(rc) >= 2
         /\ RotateClean(rc)

-----------------------------------------------------------------------------
(* find_kth *)

\* x and its ancestors.
RECURSIVE PathTo(_, _, _)
PathTo(g, x, fuel) ==
    IF x = 0 \/ fuel = 0 THEN {} ELSE {x} \cup PathTo(g, g.tree[x].pa, fuel - 1)

\* find_kth(k_rank) called in state g, whose root is g.root.
FindOk(g, k_rank) ==
    \A F \in {find_kth(g, k_rank)} : \A io \in {Inorder(g)} :
        /\ (1 <= k_rank /\ k_rank <= g.tree[g.root].sz) =>
              F.node # 0 /\ F.node = io[k_rank].h
        /\ (k_rank < 1 \/ k_rank > g.tree[g.root].sz) =>
              F.node = 0 /\ F.g = g
        /\ F.g.root = g.root /\ F.g.tot_nodes = g.tot_nodes
        /\ \A h \in Handles :
              /\ F.g.tree[h].pa = g.tree[h].pa
              /\ F.g.tree[h].ch = g.tree[h].ch
              /\ F.g.tree[h].sz = g.tree[h].sz
        /\ LET path == PathTo(g, F.node, MAXN)
               near == path \cup {g.tree[p].ch[i] : p \in path, i \in 0..1}
           IN \A h \in Handles \ near : F.g.tree[h] = g.tree[h]
        /\ F.g.tree[0] = g.tree[0]
        /\ Inorder(F.g) = io

\* C16: find_kth(rank) returns the node at in-order rank `rank` (dummies
\* included) for every rank in [1, size(root)] and the null handle, with the
\* state unchanged, for every rank outside; it never changes root, the
\* allocation count, a parent or child link or a size; it changes only key,
\* sum and lazy of nodes on the descent path or children of them, and no
\* node's logical value. Checked for every rank from -1 to size(root) + 2 in
\* every reachable state, and for the second find_kth of an operation in the
\* state its first splay leaves.
C16_FindKth ==
    Built =>
      /\ \A k \in (-1)..(tree[root].sz + 2) : FindOk(G, k)
      /\ MayCall =>
           \A k1 \in 1..(tree[root].sz - 1) :
           \A F1 \in {find_kth(G, k1)} :
           \A g1 \in {splay(F1.g, F1.node, 0)} :
           \A k2 \in (k1 + 1)..tree[root].sz : FindOk(g1, k2)

\* C16 witness: a descent of three levels through two pending tags: find_kth
\* returns the node of the rank and leaves other keys in the arena than it
\* found, and a rank above size(root) gets the null handle.
C16_Witness ==
    /\ Built /\ tree[root].sz = 5
    /\ \E k \in 1..5 : \E F \in {find_kth(G, k)} :
         /\ Depth(G, F.node, MAXN) >= 3
         /\ Cardinality({h \in PathTo(G, F.node, MAXN) : tree[h].lazy # 0}) >= 2
         /\ F.node = Inorder(G)[k].h
         /\ \E h \in Handles : F.g.tree[h].key # tree[h].key
         /\ F.g.root = root
    /\ find_kth(G, 6) = [g |-> G, node |-> 0]

-----------------------------------------------------------------------------
(* insert_at_position *)

\* insert_at_position up to its second splay: the state at the moment
\* new_node is called, and next_node.
insert_splayed(g, pos) ==
    With(find_kth(g, pos + 1), LAMBDA F1 :
    With(splay(F1.g, F1.node, 0), LAMBDA g1 :
    With(find_kth(g1, pos + 2), LAMBDA F2 :
    With(splay(F2.g, F2.node, g1.root), LAMBDA g2 :
    [g |-> g2, node |-> F2.node]))))

\* insert_at_position from new_node on.
insert_linked(g2, next_node, val) ==
    With(new_node(g2, val, next_node), LAMBDA g3 :
    With([g3 EXCEPT !.tree[next_node].ch[0] = g3.tot_nodes], LAMBDA g4 :
    With(push_up(g4, next_node), LAMBDA g5 :
    push_up(g5, g5.root))))

\* C17: for insert(pos, v) with 0 <= pos <= N, after the two splays the node
\* that was at rank pos + 1 is the root and the node that was at rank pos + 2
\* is its right child, with a null left child when the new node is linked;
\* after the call the new node is at in-order rank pos + 2 with logical value
\* v, size(root) has grown by 1, the nodes reachable are the former ones and
\* the new one, and all other nodes keep their logical values and order.
C17_InsertLinksAtNull ==
    (Built /\ tot_nodes + 1 <= MAXN - 1) =>
      \A pos \in 0..Len(model) : \A val \in Vals :
      \A io \in {Inorder(G)} :
      \A M \in {insert_splayed(G, pos)} :
      \A A \in {insert_at_position(G, pos, val)} :
        /\ M.g.root = io[pos + 1].h
        /\ M.node = io[pos + 2].h
        /\ M.g.tree[M.g.root].ch[1] = M.node
        /\ M.g.tree[M.node].pa = M.g.root
        /\ M.g.tree[M.node].ch[0] = 0
        /\ Inorder(M.g) = io
        /\ A = insert_linked(M.g, M.node, val)
        /\ A.tot_nodes = tot_nodes + 1
        /\ Inorder(A) = SubSeq(io, 1, pos + 1)
                          \o <<[h |-> A.tot_nodes, v |-> val]>>
                          \o SubSeq(io, pos + 2, Len(io))
        /\ A.tree[A.root].sz = tree[root].sz + 1
        /\ Reach(A) = Reach(G) \cup {A.tot_nodes}
        /\ LogicalSeq(A) = InsertAt(LogicalSeq(G), pos, val)

\* C17 witness: the state an insert into an updated sequence, before an element,
\* left: the new node, with value 5, is the left child of the root's right
\* child, an element, and a tag is still pending in the tree.
C17_Witness ==
    /\ last.op = "insert"
    /\ tree[root].ch[1] \notin {0, HeadDummy, TailDummy}
    /\ tree[tree[root].ch[1]].ch[0] = tot_nodes
    /\ tree[tot_nodes].key = 5 /\ tree[tot_nodes].lazy = 0
    /\ tree[tot_nodes].ch[0] = 0 /\ tree[tot_nodes].ch[1] = 0
    /\ \E x \in Reach(G) : tree[x].lazy # 0
    /\ \E i \in 1..Len(model) : model[i] \notin {5, 10, 20, 30}
    /\ LogicalSeq(G) = model

-----------------------------------------------------------------------------
(* delete_at_position *)

\* delete_at_position up to its second splay: the state at the moment the
\* left child of next_node is cleared, and next_node.
delete_splayed(g, pos) ==
    With(find_kth(g, pos + 1), LAMBDA F1 :
    With(splay(F1.g, F1.node, 0), LAMBDA g1 :
    With(find_kth(g1, pos + 3), LAMBDA F2 :
    With(splay(F2.g, F2.node, g1.root), LAMBDA g2 :
    [g |-> g2, node |-> F2.node]))))

\* delete_at_position from the clearing of the link on.
delete_unlinked(g2, next_node) ==
    With([g2 EXCEPT !.tree[next_node].ch[0] = 0], LAMBDA g3 :
    With(push_up(g3, next_node), LAMBDA g4 :
    push_up(g4, g4.root)))

\* C18: for delete(pos) with 0 <= pos < N, the subtree dropped by clearing the
\* left child of the root's right child is one node without children, the
\* node that was at in-order rank pos + 2 (the element at position pos);
\* size(root) decreases by 1, and every other node keeps its logical value
\* and its place in the order.
C18_DeleteDropsOneNode ==
    Built =>
      \A pos \in 0..(Len(model) - 1) :
      \A io \in {Inorder(G)} :
      \A M \in {delete_splayed(G, pos)} :
      \A A \in {delete_at_position(G, pos)} :
      \A dropped \in {M.g.tree[M.node].ch[0]} :
        /\ M.g.root = io[pos + 1].h
        /\ M.node = io[pos + 3].h
        /\ M.g.tree[M.g.root].ch[1] = M.node
        /\ dropped # 0 /\ dropped = io[pos + 2].h
        /\ M.g.tree[dropped].ch[0] = 0 /\ M.g.tree[dropped].ch[1] = 0
        /\ M.g.tree[dropped].sz = 1
        /\ M.g.tree[dropped].pa = M.node
        /\ SubtreeNodes(M.g, dropped) = {dropped}
        /\ Inorder(M.g) = io
        /\ A = delete_unlinked(M.g, M.node)
        /\ Reach(A) = Reach(G) \ {dropped}
        /\ A.tree[A.root].sz = tree[root].sz - 1
        /\ Inorder(A) = SubSeq(io, 1, pos + 1) \o SubSeq(io, pos + 3, Len(io))
        /\ LogicalSeq(A) = DeleteAt(LogicalSeq(G), pos)
        /\ A.tot_nodes = tot_nodes

\* C18 witness: the state a delete left, between two elements of an updated
\* sequence: the root and its right child are elements, the link between
\* them is null, and the dropped node still points at the right child.
C18_Witness ==
    /\ last.op = "delete" /\ Len(model) = 2
    /\ root \notin {HeadDummy, TailDummy}
    /\ tree[root].ch[1] \notin {0, HeadDummy, TailDummy}
    /\ tree[tree[root].ch[1]].ch[0] = 0
    /\ \E h \in detached :
         /\ tree[h].pa = tree[root].ch[1]
         /\ tree[h].ch[0] = 0 /\ tree[h].ch[1] = 0
         /\ h \notin Reach(G)
    /\ \E i \in 1..Len(model) : model[i] \notin {5, 10, 20, 30}
    /\ LogicalSeq(G) = model

-----------------------------------------------------------------------------
(* Structure *)

\* The links below root form a binary tree: the root has no parent, each
\* non-null child's parent link points back, the traversal meets no cycle and
\* no handle twice, and the nodes reachable are as many as size(root).
WellFormed(g) ==
    LET hs == HandlesBelow(g, g.root) IN
    /\ g.root # 0 /\ g.tree[g.root].pa = 0
    /\ \A x \in Reach(g) : \A i \in 0..1 :
          LET c == g.tree[x].ch[i] IN c # 0 => g.tree[c].pa = x
    /\ \A i \in 1..Len(hs) : hs[i] \in Handles \ {0}
    /\ \A i, j \in 1..Len(hs) : hs[i] = hs[j] => i = j
    /\ \A x \in Reach(g) : g.tree[x].ch[0] = 0 \/ g.tree[x].ch[0] # g.tree[x].ch[1]
    /\ {hs[i] : i \in 1..Len(hs)} = Reach(g)
    /\ Cardinality(Reach(g)) = g.tree[g.root].sz

\* C19: after every public operation called within its preconditions,
\* parent(root) = 0; every non-null child c of a reachable node x has
\* parent(c) = x; no node is reachable by two paths (no cycle, no sharing);
\* and the number of nodes reachable from root is size(root).
C19_WellFormed ==
    Built => WellFormed(G)

\* C19 witness: after a delete from a full arena, a tree of four nodes whose root
\* is an element with two children, one of them with a child of its own.
C19_Witness ==
    /\ Built /\ detached # {} /\ tot_nodes = MAXN - 1
    /\ Cardinality(Reach(G)) = 4 /\ WellFormed(G)
    /\ root \notin {HeadDummy, TailDummy}
    /\ tree[root].ch[0] # 0 /\ tree[root].ch[1] # 0
    /\ \E x \in Reach(G) : tree[x].pa = root /\ tree[x].ch[0] # 0

-----------------------------------------------------------------------------
(* The dummies *)

\* Sum of the values of a sequence.
RECURSIVE SumSeq(_)
SumSeq(seq) == IF seq = <<>> THEN 0 ELSE Head(seq) + SumSeq(Tail(seq))

\* C20: in every state reachable through operations called within their
\* preconditions, both dummies have key 0 and lazy 0 and no strict ancestor
\* of a dummy has a non-zero lazy tag, so sum(root) is the sum of the current
\* logical elements.
C20_DummiesNeverTagged ==
    Built =>
      /\ \A d \in {HeadDummy, TailDummy} :
            /\ d \in Reach(G)
            /\ tree[d].key = 0 /\ tree[d].lazy = 0
            /\ \A a \in PathTo(G, d, MAXN) \ {d} : tree[a].lazy = 0
      /\ tree[root].sum = SumSeq(LogicalSeq(G))
      /\ tree[root].sum = SumSeq(model)

\* C20 witness: the state an update of the whole of a two-element sequence
\* left, after an earlier delete: the tagged subtree hangs between the two
\* dummies, which are root and right child, and sum(root) is the sum of the
\* updated elements.
C20_Witness ==
    /\ last.op = "update" /\ last.a = 0 /\ last.b = Len(model) - 1 /\ Len(model) = 2
    /\ detached # {}
    /\ root = HeadDummy /\ tree[root].ch[1] = TailDummy
    /\ tree[tree[TailDummy].ch[0]].lazy # 0
    /\ tree[tree[TailDummy].ch[0]].sz = 2
    /\ tree[HeadDummy].key = 0 /\ tree[TailDummy].key = 0
    /\ tree[root].sum = SumSeq(model)
    /\ \E i \in 1..Len(model) : model[i] \notin {5, 10, 20, 30}

====
